---- MODULE Spec2Model ----
(***************************************************************************)
(* The cpu cgroup controller of libcontainer/cgroups/fs/cpu.go: CpuGroup's *)
(* Apply, ApplyDir, SetRtSched, Set, Remove and GetStats, acting on one    *)
(* cgroup directory of a cgroup-v1 cpu hierarchy.                          *)
(*                                                                         *)
(* Every handler is synchronous and single-threaded, so each is one        *)
(* action.  The action records the call it made (operation, arguments, the *)
(* state it started from, the ordered log of the filesystem operations it  *)
(* issued, and the error it returned), so that statements about one call   *)
(* are state predicates over the state reached by that call.               *)
(***************************************************************************)
EXTENDS Integers, Sequences, FiniteSets, TLC

\* ------------------------------------------------------------------ bounds

\* Largest number of filesystem operations of one call that the environment
\* makes fail for a reason other than the ones modelled (absent directory,
\* quota/period rule): an unsupported file, EPERM, EBUSY, ...
MaxFaults == 2
\* Process ids handed to Apply are 1..MaxPid.
MaxPid == 1
\* Largest number of lines of a cpu.stat file.
MaxStatLines == 3

\* ------------------------------------------------------------- value sets

\* The cgroup directory d.path("cpu") resolves to, and the empty path.
Dir == "/sys/fs/cgroup/cpu/c"
Paths == {"", Dir}

\* Values of configs.Resources' cpu fields handed to the controller
\* (0: the field is not set).
SharesVals == {0, 512}
PeriodVals == {0, 1000, 10000}
QuotaVals == {0, -1, 1000, 10000}
RtPeriodVals == {0, 500000}
RtRuntimeVals == {0, 400000}

Resources ==
  [CpuShares : SharesVals, CpuPeriod : PeriodVals, CpuQuota : QuotaVals,
   CpuRtPeriod : RtPeriodVals, CpuRtRuntime : RtRuntimeVals]

NoResources ==
  [CpuShares |-> 0, CpuPeriod |-> 0, CpuQuota |-> 0,
   CpuRtPeriod |-> 0, CpuRtRuntime |-> 0]

\* ------------------------------------------------------------------ state

VARIABLES
  limits,    \* the neighbours of the directory in the cgroup tree
  dirExists, \* the cgroup directory exists
  fs,        \* the values in effect in the directory's control files
  procs,     \* the pids in the directory's cgroup.procs
  removed,   \* a Remove has returned success
  op,        \* the last call: its operation ("none": no call on record)
  res,       \* the last call: what d.path("cpu") returned (Apply, Remove)
  path,      \* the last call: the directory path it acted on
  pid,       \* the last call: the pid to attach (Apply, ApplyDir)
  arg,       \* the last call: its configs.Resources (Apply, SetRtSched, Set)
  pre,       \* the last call: dirExists, fs, procs, removed as it started
  log,       \* the last call: the filesystem operations it issued, in order
  ret,       \* the last call: the error it returned
  faults,    \* the last call: the log positions the environment made fail
  again,     \* the last call: it repeated the call before it, right after it
  statFile,  \* the last call: cpu.stat as GetStats found it
  stats0,    \* the last call: the caller's ThrottlingData handed to GetStats
  stats      \* the last call: the caller's ThrottlingData after GetStats

vars ==
  <<limits, dirExists, fs, procs, removed, op, res, path, pid, arg, pre, log,
    ret, faults, again, statFile, stats0, stats>>

\* -------------------------------------------------------------- errors

\* An error value: its kind and, for the error of a filesystem operation,
\* the position in the call's log of the operation that produced it.
Nil == [kind |-> "nil", at |-> 0]
ErrAt(kind, k) == [kind |-> kind, at |-> k]

\* ------------------------------------------------- strconv and the kernel

Digits == <<"0", "1", "2", "3", "4", "5", "6", "7", "8", "9">>

RECURSIVE FormatUint(_)
\* strconv.FormatUint(n, 10): the decimal digits of n, most significant first.
FormatUint(n) ==
  IF n < 10 THEN <<Digits[n + 1]>>
  ELSE Append(FormatUint(n \div 10), Digits[(n % 10) + 1])

\* strconv.FormatInt(n, 10): a minus sign before the digits of a negative n.
FormatInt(n) ==
  IF n < 0 THEN <<"-">> \o FormatUint(0 - n) ELSE FormatUint(n)

DigitVal(c) == CHOOSE d \in 0..9 : Digits[d + 1] = c

IsDigit(c) == \E d \in 0..9 : Digits[d + 1] = c

RECURSIVE ParseDigits(_, _)
ParseDigits(s, acc) ==
  IF s = <<>> THEN acc
  ELSE ParseDigits(Tail(s), acc * 10 + DigitVal(Head(s)))

\* The kernel's reading of a value written to a control file: an optional
\* minus sign and decimal digits.
IsNumber(s) ==
  LET body == IF s # <<>> /\ Head(s) = "-" THEN Tail(s) ELSE s
  IN body # <<>> /\ \A i \in 1..Len(body) : IsDigit(body[i])

ParseNumber(s) ==
  IF Head(s) = "-" THEN 0 - ParseDigits(Tail(s), 0) ELSE ParseDigits(s, 0)

\* The neighbours' quota and period: the example of Set's comment,
\* 1000/1000 above and 1000/1000 below.
ParentCfs == [period |-> 1000, quota |-> 1000]
ChildCfs == [period |-> 1000, quota |-> 1000]

\* A kernel holding a node to its parent's ratio alone, whatever its children
\* have.
RatioOK_ParentOnly(p, q) ==
  \/ q < 0
  \/ limits.hasParent => q * ParentCfs.period <= ParentCfs.quota * p

\* "cgroup child node should not have a higher quota/period ratio than its
\* parent": quota q over period p is no higher than the parent's ratio and
\* no lower than any child's.  A quota of -1 sets no limit of its own: the
\* kernel takes it at any place of the tree.
RatioOK(p, q) ==
  \/ q < 0
  \/ /\ limits.hasParent => q * ParentCfs.period <= ParentCfs.quota * p
     /\ limits.hasChild => ChildCfs.quota * p <= q * ChildCfs.period

\* Whether the kernel takes value v for a control file, the values f being in
\* effect.
KernelAccepts(f, file, v) ==
  CASE file = "cpu.cfs_period_us" -> v > 0 /\ RatioOK(v, f.quota)
    [] file = "cpu.cfs_quota_us" -> (v > 0 \/ v = -1) /\ RatioOK(f.period, v)
    [] OTHER -> v >= 0

\* The write takes effect: the control file's value is v from now on.
KernelStore(f, file, v) ==
  CASE file = "cpu.shares" -> [f EXCEPT !.shares = v]
    [] file = "cpu.cfs_period_us" -> [f EXCEPT !.period = v]
    [] file = "cpu.cfs_quota_us" -> [f EXCEPT !.quota = v]
    [] file = "cpu.rt_period_us" -> [f EXCEPT !.rtPeriod = v]
    [] file = "cpu.rt_runtime_us" -> [f EXCEPT !.rtRuntime = v]

\* ------------------------------------------------------- the call machine

\* The state a handler threads through its steps: the directory, the values
\* in effect, the attached pids, the log of the operations issued so far and
\* the error of the last step.
Machine(d, f, p) == [dir |-> d, fs |-> f, procs |-> p, log |-> <<>>, err |-> Nil]

Event(ev, file, data, ok) == [ev |-> ev, file |-> file, data |-> data, ok |-> ok]

\* The step about to be issued is one the environment makes fail.
Faulty(m, F) == (Len(m.log) + 1) \in F

Step(m, ev, file, data, ok, kind) ==
  [m EXCEPT !.log = Append(m.log, Event(ev, file, data, ok)),
            !.err = IF ok THEN Nil ELSE ErrAt(kind, Len(m.log) + 1)]

\* writeFile(dir, file, data): one write of the whole value to dir/file.  It
\* fails when dir is empty or does not exist, when the kernel rejects the
\* value, or when the environment fails it; a failed write changes nothing.
writeFile(m, dir, file, data, F) ==
  LET ok == /\ dir # ""
            /\ m.dir
            /\ ~Faulty(m, F)
            /\ IsNumber(data)
            /\ KernelAccepts(m.fs, file, ParseNumber(data))
      m1 == Step(m, "write", file, data, ok, "WriteError")
  IN IF ok THEN [m1 EXCEPT !.fs = KernelStore(m.fs, file, ParseNumber(data))]
     ELSE m1

\* SetRtSched without its tests for zero: both RT files are always written.
SetRtSched_Unconditional(m, dir, r, F) ==
  LET a == writeFile(m, dir, "cpu.rt_period_us", FormatUint(r.CpuRtPeriod), F)
  IN IF a.err # Nil THEN a
     ELSE writeFile(a, dir, "cpu.rt_runtime_us", FormatInt(r.CpuRtRuntime), F)

\* SetRtSched writing the runtime though the write of the period failed, and
\* returning the first error.
SetRtSched_KeepGoing(m, dir, r, F) ==
  LET a == IF r.CpuRtPeriod # 0
           THEN writeFile(m, dir, "cpu.rt_period_us", FormatUint(r.CpuRtPeriod), F)
           ELSE m
      a0 == [a EXCEPT !.err = Nil]
      b == IF r.CpuRtRuntime # 0
           THEN writeFile(a0, dir, "cpu.rt_runtime_us", FormatInt(r.CpuRtRuntime), F)
           ELSE a0
  IN IF a.err # Nil THEN [b EXCEPT !.err = a.err] ELSE b

\* CpuGroup.SetRtSched
SetRtSched(m, dir, r, F) ==
  LET a == IF r.CpuRtPeriod # 0
           THEN writeFile(m, dir, "cpu.rt_period_us", FormatUint(r.CpuRtPeriod), F)
           ELSE m
  IN IF a.err # Nil THEN a
     ELSE IF r.CpuRtRuntime # 0
          THEN writeFile(a, dir, "cpu.rt_runtime_us", FormatInt(r.CpuRtRuntime), F)
          ELSE a

\* Set with a single attempt at the period: a failed period write is
\* dropped and never retried.
Set_NoRetry(m, dir, r, F) ==
  LET a == IF r.CpuShares # 0
           THEN writeFile(m, dir, "cpu.shares", FormatUint(r.CpuShares), F)
           ELSE m
  IN IF a.err # Nil THEN a
     ELSE
       LET b == IF r.CpuPeriod # 0
                THEN writeFile(a, dir, "cpu.cfs_period_us", FormatUint(r.CpuPeriod), F)
                ELSE a
           b0 == [b EXCEPT !.err = Nil]
           c == IF r.CpuQuota # 0
                THEN writeFile(b0, dir, "cpu.cfs_quota_us", FormatInt(r.CpuQuota), F)
                ELSE b0
       IN IF c.err # Nil THEN c ELSE SetRtSched(c, dir, r, F)

\* Set writing the quota before the period, each once, a failure of either
\* being returned.
Set_QuotaFirst(m, dir, r, F) ==
  LET a == IF r.CpuShares # 0
           THEN writeFile(m, dir, "cpu.shares", FormatUint(r.CpuShares), F)
           ELSE m
  IN IF a.err # Nil THEN a
     ELSE
       LET c == IF r.CpuQuota # 0
                THEN writeFile(a, dir, "cpu.cfs_quota_us", FormatInt(r.CpuQuota), F)
                ELSE a
       IN IF c.err # Nil THEN c
          ELSE
            LET b == IF r.CpuPeriod # 0
                     THEN writeFile(c, dir, "cpu.cfs_period_us", FormatUint(r.CpuPeriod), F)
                     ELSE c
            IN IF b.err # Nil THEN b ELSE SetRtSched(b, dir, r, F)

\* Set writing the period a second time after the quota whether or not the
\* first write failed.
Set_AlwaysRetry(m, dir, r, F) ==
  LET a == IF r.CpuShares # 0
           THEN writeFile(m, dir, "cpu.shares", FormatUint(r.CpuShares), F)
           ELSE m
  IN IF a.err # Nil THEN a
     ELSE
       LET b == IF r.CpuPeriod # 0
                THEN writeFile(a, dir, "cpu.cfs_period_us", FormatUint(r.CpuPeriod), F)
                ELSE a
           b0 == [b EXCEPT !.err = Nil]
           c == IF r.CpuQuota # 0
                THEN writeFile(b0, dir, "cpu.cfs_quota_us", FormatInt(r.CpuQuota), F)
                ELSE b0
       IN IF c.err # Nil THEN c
          ELSE
            LET d == IF r.CpuPeriod # 0
                     THEN writeFile(c, dir, "cpu.cfs_period_us", FormatUint(r.CpuPeriod), F)
                     ELSE c
            IN IF d.err # Nil THEN d ELSE SetRtSched(d, dir, r, F)

\* Set keeping the error of the first period write and returning it when the
\* retry fails too.
Set_FirstError(m, dir, r, F) ==
  LET a == IF r.CpuShares # 0
           THEN writeFile(m, dir, "cpu.shares", FormatUint(r.CpuShares), F)
           ELSE m
  IN IF a.err # Nil THEN a
     ELSE
       LET b == IF r.CpuPeriod # 0
                THEN writeFile(a, dir, "cpu.cfs_period_us", FormatUint(r.CpuPeriod), F)
                ELSE a
           reorder == b.err # Nil
           b0 == [b EXCEPT !.err = Nil]
           c == IF r.CpuQuota # 0
                THEN writeFile(b0, dir, "cpu.cfs_quota_us", FormatInt(r.CpuQuota), F)
                ELSE b0
       IN IF c.err # Nil THEN c
          ELSE
            LET d == IF reorder
                     THEN writeFile(c, dir, "cpu.cfs_period_us", FormatUint(r.CpuPeriod), F)
                     ELSE c
            IN IF d.err # Nil THEN [d EXCEPT !.err = b.err]
               ELSE SetRtSched(d, dir, r, F)

\* Set retrying the period only when it has written a quota in between.
Set_RetryIfQuota(m, dir, r, F) ==
  LET a == IF r.CpuShares # 0
           THEN writeFile(m, dir, "cpu.shares", FormatUint(r.CpuShares), F)
           ELSE m
  IN IF a.err # Nil THEN a
     ELSE
       LET b == IF r.CpuPeriod # 0
                THEN writeFile(a, dir, "cpu.cfs_period_us", FormatUint(r.CpuPeriod), F)
                ELSE a
           reorder == b.err # Nil /\ r.CpuQuota # 0
           b0 == [b EXCEPT !.err = Nil]
           c == IF r.CpuQuota # 0
                THEN writeFile(b0, dir, "cpu.cfs_quota_us", FormatInt(r.CpuQuota), F)
                ELSE b0
       IN IF c.err # Nil THEN c
          ELSE
            LET d == IF reorder
                     THEN writeFile(c, dir, "cpu.cfs_period_us", FormatUint(r.CpuPeriod), F)
                     ELSE c
            IN IF d.err # Nil THEN d ELSE SetRtSched(d, dir, r, F)

\* Set undoing its writes when it fails: the values in effect are put back.
Set_Rollback(m, dir, r, F) ==
  LET a == IF r.CpuShares # 0
           THEN writeFile(m, dir, "cpu.shares", FormatUint(r.CpuShares), F)
           ELSE m
      b == IF r.CpuPeriod # 0
           THEN writeFile(a, dir, "cpu.cfs_period_us", FormatUint(r.CpuPeriod), F)
           ELSE a
      reorder == b.err # Nil
      b0 == [b EXCEPT !.err = Nil]
      c == IF r.CpuQuota # 0
           THEN writeFile(b0, dir, "cpu.cfs_quota_us", FormatInt(r.CpuQuota), F)
           ELSE b0
      d == IF reorder
           THEN writeFile(c, dir, "cpu.cfs_period_us", FormatUint(r.CpuPeriod), F)
           ELSE c
      e == IF a.err # Nil THEN a
           ELSE IF c.err # Nil THEN c
           ELSE IF d.err # Nil THEN d
           ELSE SetRtSched(d, dir, r, F)
  IN IF e.err # Nil THEN [e EXCEPT !.fs = m.fs] ELSE e

\* CpuGroup.Set
Set(m, dir, r, F) ==
  LET a == IF r.CpuShares # 0
           THEN writeFile(m, dir, "cpu.shares", FormatUint(r.CpuShares), F)
           ELSE m
  IN IF a.err # Nil THEN a
     ELSE
       LET b == IF r.CpuPeriod # 0
                THEN writeFile(a, dir, "cpu.cfs_period_us", FormatUint(r.CpuPeriod), F)
                ELSE a
           reorder == b.err # Nil
           \* the error of the first period write is dropped
           b0 == [b EXCEPT !.err = Nil]
           c == IF r.CpuQuota # 0
                THEN writeFile(b0, dir, "cpu.cfs_quota_us", FormatInt(r.CpuQuota), F)
                ELSE b0
       IN IF c.err # Nil THEN c
          ELSE
            LET d == IF reorder
                     THEN writeFile(c, dir, "cpu.cfs_period_us", FormatUint(r.CpuPeriod), F)
                     ELSE c
            IN IF d.err # Nil THEN d ELSE SetRtSched(d, dir, r, F)

\* The values in effect in a group the kernel has just created.
NewGroup ==
  [shares |-> 1024, period |-> 100000, quota |-> -1,
   rtPeriod |-> 1000000, rtRuntime |-> 0]

\* os.MkdirAll(path, 0755): success when the directory is there already;
\* otherwise the kernel creates the group.  The empty path names nothing.
MkdirAll(m, dir, F) ==
  LET ok == dir # "" /\ ~Faulty(m, F)
      m1 == Step(m, "mkdir", dir, <<>>, ok, "MkdirError")
  IN IF ok /\ ~m.dir THEN [m1 EXCEPT !.dir = TRUE, !.fs = NewGroup, !.procs = {}]
     ELSE m1

\* cgroups.WriteCgroupProc(dir, pid): the pid is written to dir/cgroup.procs.
WriteCgroupProc(m, dir, p, F) ==
  LET ok == dir # "" /\ m.dir /\ ~Faulty(m, F)
      m1 == Step(m, "attach", "cgroup.procs", FormatInt(p), ok, "AttachError")
  IN IF ok THEN [m1 EXCEPT !.procs = m.procs \cup {p}] ELSE m1

\* ApplyDir attaching the process before it sets the RT parameters.
ApplyDir_AttachFirst(m, dir, r, p, F) ==
  IF dir = "" THEN m
  ELSE
    LET a == MkdirAll(m, dir, F)
    IN IF a.err # Nil THEN a
       ELSE
         LET b == WriteCgroupProc(a, dir, p, F)
         IN IF b.err # Nil THEN b ELSE SetRtSched(b, dir, r, F)

\* ApplyDir stopping after the RT parameters: the process is not attached.
ApplyDir_NoAttach(m, dir, r, p, F) ==
  IF dir = "" THEN m
  ELSE
    LET a == MkdirAll(m, dir, F)
    IN IF a.err # Nil THEN a ELSE SetRtSched(a, dir, r, F)

\* ApplyDir without its test for the empty path.
ApplyDir_NoEmptyCheck(m, dir, r, p, F) ==
  LET a == MkdirAll(m, dir, F)
  IN IF a.err # Nil THEN a
     ELSE
       LET b == SetRtSched(a, dir, r, F)
       IN IF b.err # Nil THEN b ELSE WriteCgroupProc(b, dir, p, F)

\* ApplyDir attaching the process whatever SetRtSched returned.
ApplyDir_IgnoreRtError(m, dir, r, p, F) ==
  IF dir = "" THEN m
  ELSE
    LET a == MkdirAll(m, dir, F)
    IN IF a.err # Nil THEN a
       ELSE
         LET b == SetRtSched(a, dir, r, F)
         IN WriteCgroupProc([b EXCEPT !.err = Nil], dir, p, F)

\* CpuGroup.ApplyDir
ApplyDir(m, dir, r, p, F) ==
  IF dir = "" THEN m
  ELSE
    LET a == MkdirAll(m, dir, F)
    IN IF a.err # Nil THEN a
       ELSE
         LET b == SetRtSched(a, dir, r, F)
         IN IF b.err # Nil THEN b ELSE WriteCgroupProc(b, dir, p, F)

\* What d.path("cpu") returns: the directory, or no path and an error, which
\* is a NotFoundError when the cpu subsystem is not mounted.
Resolutions ==
  {[path |-> Dir, err |-> Nil],
   [path |-> "", err |-> ErrAt("NotFound", 0)],
   [path |-> "", err |-> ErrAt("ResolveError", 0)]}

NoResolution == [path |-> "", err |-> Nil]

\* cgroups.IsNotFound(err)
IsNotFound(err) == err.kind = "NotFound"

\* Apply returning every error of the resolution, the subsystem not being
\* mounted included.
Apply_NotFoundFatal(m, rs, r, p, F) ==
  IF rs.err # Nil THEN [m EXCEPT !.err = rs.err]
  ELSE ApplyDir(m, rs.path, r, p, F)

\* CpuGroup.Apply
Apply(m, rs, r, p, F) ==
  IF rs.err # Nil /\ ~IsNotFound(rs.err) THEN [m EXCEPT !.err = rs.err]
  ELSE ApplyDir(m, rs.path, r, p, F)

\* removePath deleting as rmdir does: an absent directory is an error.
removePath_AbsentIsError(m, p, err, F) ==
  IF err # Nil THEN [m EXCEPT !.err = err]
  ELSE IF p = "" THEN m
  ELSE
    LET ok == m.dir /\ ~Faulty(m, F)
        m1 == Step(m, "rmdir", p, <<>>, ok, "RemoveError")
    IN IF ok THEN [m1 EXCEPT !.dir = FALSE, !.fs = NewGroup, !.procs = {}]
       ELSE m1

\* removePath(p, err): the error of the resolution if there is one;
\* otherwise the directory and all below it is deleted, which succeeds when
\* the directory is absent already.
removePath(m, p, err, F) ==
  IF err # Nil THEN [m EXCEPT !.err = err]
  ELSE IF p = "" THEN m
  ELSE
    LET ok == ~Faulty(m, F)
        m1 == Step(m, "rmdir", p, <<>>, ok, "RemoveError")
    IN IF ok THEN [m1 EXCEPT !.dir = FALSE, !.fs = NewGroup, !.procs = {}]
       ELSE m1

\* CpuGroup.Remove
Remove(m, rs, F) == removePath(m, rs.path, rs.err, F)

\* ------------------------------------------------------------- statistics

\* cgroups.ThrottlingData
ThrottlingData(p, tp, tt) ==
  [Periods |-> p, ThrottledPeriods |-> tp, ThrottledTime |-> tt]

\* The records a caller hands to GetStats: a fresh one, and one that an
\* earlier read has filled.
StatsVals == {ThrottlingData(0, 0, 0), ThrottlingData(3, 1, 7)}

\* The lines of cpu.stat, each as its whitespace-separated fields: the three
\* counters, a second value of one of them, a counter this code does not
\* know, a line of one field and a line whose value is no number.
StatLines ==
  {<<"nr_periods", FormatUint(10)>>,
   <<"nr_periods", FormatUint(11)>>,
   <<"nr_throttled", FormatUint(2)>>,
   <<"throttled_time", FormatUint(500000)>>,
   <<"nr_bursts", FormatUint(4)>>,
   <<"nr_periods">>,
   <<"throttled_time", <<"x">>>>}

RECURSIVE SeqsUpTo(_, _)
\* The sequences over S of length at most n.
SeqsUpTo(S, n) ==
  IF n = 0 THEN {<<>>}
  ELSE LET shorter == SeqsUpTo(S, n - 1)
       IN shorter \cup {Append(q, x) : q \in {t \in shorter : Len(t) = n - 1}, x \in S}

NoFile == [present |-> FALSE, lines |-> <<>>]

StatFiles ==
  {NoFile} \cup {[present |-> TRUE, lines |-> l] : l \in SeqsUpTo(StatLines, MaxStatLines)}

\* getCgroupParamKeyValue(t): a line of two fields, a key and an unsigned
\* decimal number; any other line is an error.
getCgroupParamKeyValue(t) ==
  IF Len(t) = 2 /\ t[2] # <<>> /\ \A i \in 1..Len(t[2]) : IsDigit(t[2][i])
  THEN [key |-> t[1], value |-> ParseDigits(t[2], 0), err |-> Nil]
  ELSE [key |-> "", value |-> 0, err |-> ErrAt("ParseError", 0)]

\* The switch on the key with two of its cases exchanged.
StoreStat_Swapped(st, t, v) ==
  CASE t = "nr_periods" -> [st EXCEPT !.Periods = v]
    [] t = "nr_throttled" -> [st EXCEPT !.ThrottledTime = v]
    [] t = "throttled_time" -> [st EXCEPT !.ThrottledPeriods = v]
    [] OTHER -> st

\* The body of GetStats' scanner loop: the switch on the key.
StoreStat(st, t, v) ==
  CASE t = "nr_periods" -> [st EXCEPT !.Periods = v]
    [] t = "nr_throttled" -> [st EXCEPT !.ThrottledPeriods = v]
    [] t = "throttled_time" -> [st EXCEPT !.ThrottledTime = v]
    [] OTHER -> st

RECURSIVE Scan(_, _)
\* GetStats' scanner loop over the lines left to read.
Scan(st, lines) ==
  IF lines = <<>> THEN [stats |-> st, err |-> Nil]
  ELSE
    LET kv == getCgroupParamKeyValue(Head(lines))
    IN IF kv.err # Nil THEN [stats |-> st, err |-> kv.err]
       ELSE Scan(StoreStat(st, kv.key, kv.value), Tail(lines))

\* GetStats returning the error of every failed open, the one of a file that
\* does not exist included.
GetStats_AbsentIsError(st, dir, file, failOpen) ==
  IF ~file.present \/ failOpen THEN [stats |-> st, err |-> ErrAt("OpenError", 0)]
  ELSE Scan(st, file.lines)

\* CpuGroup.GetStats: st is the caller's record, file the cpu.stat under dir,
\* failOpen an open that fails though the file exists.
GetStats(st, dir, file, failOpen) ==
  IF ~file.present THEN [stats |-> st, err |-> Nil]
  ELSE IF failOpen THEN [stats |-> st, err |-> ErrAt("OpenError", 0)]
  ELSE Scan(st, file.lines)

\* ----------------------------------------------------------------- actions

\* The sets of positions at which the environment fails a call's
\* filesystem operations; a call issues at most six.
FaultSets == {F \in SUBSET (1..6) : Cardinality(F) <= MaxFaults}

Pids == 1..MaxPid

NoPre == [dir |-> FALSE, fs |-> NewGroup, procs |-> {}, removed |-> FALSE]

NoNeighbours == [hasParent |-> FALSE, hasChild |-> FALSE]

InitCall ==
  /\ procs = {}
  /\ removed = FALSE
  /\ op = "none"
  /\ res = NoResolution
  /\ path = ""
  /\ pid = 0
  /\ arg = NoResources
  /\ pre = NoPre
  /\ log = <<>>
  /\ ret = Nil
  /\ faults = {}
  /\ again = FALSE
  /\ statFile = NoFile
  /\ stats0 = ThrottlingData(0, 0, 0)
  /\ stats = ThrottlingData(0, 0, 0)

\* A directory with no limit above or below it, absent or just created.
Init ==
  /\ limits = NoNeighbours
  /\ dirExists \in BOOLEAN
  /\ fs = NewGroup
  /\ InitCall

\* The state a call starts from.
Start == Machine(dirExists, fs, procs)

\* The call is over: the directory is as the call left it, and the call is on
\* record; rep tells a call that repeats the one on record.
RecordCall(name, rs, dir, p, r, F, m, rep) ==
  /\ dirExists' = m.dir
  /\ fs' = m.fs
  /\ procs' = m.procs
  /\ removed' = (removed \/ (name = "Remove" /\ m.err = Nil))
  /\ op' = name
  /\ res' = rs
  /\ path' = dir
  /\ pid' = p
  /\ arg' = r
  /\ pre' = [dir |-> dirExists, fs |-> fs, procs |-> procs, removed |-> removed]
  /\ log' = m.log
  /\ ret' = m.err
  /\ faults' = {i \in F : i <= Len(m.log)}
  /\ again' = rep
  /\ UNCHANGED <<limits, statFile, stats0, stats>>

Record(name, rs, dir, p, r, F, m) == RecordCall(name, rs, dir, p, r, F, m, FALSE)

\* The configurations handed to Set: every choice of the fields that are set
\* and the fields that are not.
SetResources ==
  {r \in Resources : r.CpuPeriod \in {0, 1000} /\ r.CpuQuota \in {0, 1000}}

\* The configurations handed to Apply and SetRtSched, which read the RT
\* fields alone: the RT fields vary, the others are all set or all unset.
ApplyResources ==
  {r \in SetResources :
     \/ r.CpuShares = 0 /\ r.CpuPeriod = 0 /\ r.CpuQuota = 0
     \/ r.CpuShares # 0 /\ r.CpuPeriod # 0 /\ r.CpuQuota # 0}

ApplyCall ==
  /\ op = "none"
  /\ \E rs \in Resolutions, r \in ApplyResources, p \in Pids, F \in FaultSets :
       Record("Apply", rs, rs.path, p, r, F, Apply(Start, rs, r, p, F))

ApplyDirCall ==
  /\ op = "none"
  /\ \E dir \in Paths, r \in ApplyResources, p \in Pids, F \in FaultSets :
       Record("ApplyDir", NoResolution, dir, p, r, F, ApplyDir(Start, dir, r, p, F))

SetRtSchedCall ==
  /\ op = "none"
  /\ \E dir \in Paths, r \in ApplyResources, F \in FaultSets :
       Record("SetRtSched", NoResolution, dir, 0, r, F, SetRtSched(Start, dir, r, F))

SetCall ==
  /\ op = "none"
  /\ \E dir \in Paths, r \in SetResources, F \in FaultSets :
       Record("Set", NoResolution, dir, 0, r, F, Set(Start, dir, r, F))

RemoveCall ==
  /\ op = "none"
  /\ \E rs \in Resolutions, F \in FaultSets :
       Record("Remove", rs, rs.path, 0, NoResources, F, Remove(Start, rs, F))

\* The caller has taken the call's result.  The controller keeps nothing
\* between calls (CpuGroup has no fields): the next call starts from the
\* directory alone.
Forget ==
  /\ op # "none"
  /\ op' = "none"
  /\ res' = NoResolution
  /\ path' = ""
  /\ pid' = 0
  /\ arg' = NoResources
  /\ pre' = NoPre
  /\ log' = <<>>
  /\ ret' = Nil
  /\ faults' = {}
  /\ again' = FALSE
  /\ statFile' = NoFile
  /\ stats0' = ThrottlingData(0, 0, 0)
  /\ stats' = ThrottlingData(0, 0, 0)
  /\ UNCHANGED <<limits, dirExists, fs, procs, removed>>

Next ==
  \/ ApplyCall
  \/ ApplyDirCall
  \/ SetRtSchedCall
  \/ SetCall
  \/ RemoveCall
  \/ Forget

Spec == Init /\ [][Next]_vars

\* ------------------------------------------------ the directory in a tree

\* The quota/period pairs in effect that satisfy the rule of the tree.
ValidFs(l) ==
  {f \in {[NewGroup EXCEPT !.period = p, !.quota = q] :
            p \in {1000, 10000, 100000}, q \in {-1, 1000, 10000}} :
     \/ f.quota < 0
     \/ /\ l.hasParent => f.quota * ParentCfs.period <= ParentCfs.quota * f.period
        /\ l.hasChild => ChildCfs.quota * f.period <= f.quota * ChildCfs.period}

\* An existing directory at any place of a tree (a leaf under a parent, a
\* parent over children, a node in the middle, or neither), with any valid
\* quota and period in effect.
InitTree ==
  /\ limits \in [hasParent : BOOLEAN, hasChild : BOOLEAN]
  /\ dirExists = TRUE
  /\ fs \in ValidFs(limits)
  /\ InitCall

\* The configurations handed to Set in a tree: every period and quota, the
\* other fields all set or all unset.
TreeResources ==
  {r \in Resources :
     \/ r.CpuShares = 0 /\ r.CpuRtPeriod = 0 /\ r.CpuRtRuntime = 0
     \/ r.CpuShares # 0 /\ r.CpuRtPeriod # 0 /\ r.CpuRtRuntime # 0}

TreeSetCall ==
  /\ op = "none"
  /\ \E r \in TreeResources, F \in FaultSets :
       Record("Set", NoResolution, Dir, 0, r, F, Set(Start, Dir, r, F))

\* The caller calls Set once more with the configuration of a Set that has
\* just returned success, nothing else having touched the directory.
TreeSetAgain ==
  /\ op = "Set"
  /\ ret = Nil
  /\ \E F \in FaultSets :
       RecordCall("Set", NoResolution, path, 0, arg, F, Set(Start, path, arg, F), TRUE)

NextTree ==
  \/ TreeSetCall
  \/ TreeSetAgain
  \/ Forget

SpecTree == InitTree /\ [][NextTree]_vars

\* ------------------------------------------------------ the stats reader

\* The statistics reader on its own: GetStats reads cpu.stat and writes the
\* caller's record, and touches nothing else.
GetStatsCall ==
  /\ op = "none"
  /\ \E dir \in Paths, st \in StatsVals, file \in StatFiles, failOpen \in BOOLEAN :
       /\ file.present => (dirExists /\ dir # "")
       /\ LET g == GetStats(st, dir, file, failOpen)
          IN /\ op' = "GetStats"
             /\ path' = dir
             /\ statFile' = file
             /\ stats0' = st
             /\ stats' = g.stats
             /\ ret' = g.err
       /\ pre' = [dir |-> dirExists, fs |-> fs, procs |-> procs, removed |-> removed]
       /\ UNCHANGED <<limits, dirExists, fs, procs, removed, res, pid, arg, log, faults,
                    again>>

NextStats ==
  \/ GetStatsCall
  \/ Forget

SpecStats == Init /\ [][NextStats]_vars

\* ------------------------------------------------- reading a call's record

\* The positions of the call's log holding an operation ev on file.
At(ev, file) == {i \in 1..Len(log) : log[i].ev = ev /\ log[i].file = file}

WritesTo(file) == At("write", file)

\* The number of writes the call issued to file, failed ones included.
Writes(file) == Cardinality(WritesTo(file))

AllOk == \A i \in 1..Len(log) : log[i].ok

\* The call changed nothing: the directory, its values and its processes
\* are as the call found them.
Untouched == dirExists = pre.dir /\ fs = pre.fs /\ procs = pre.procs

IsSet == op = "Set"

\* The write of value data to file, as the log holds it.
W(file, data, ok) == Event("write", file, data, ok)

\* The RT writes of a call whose writes all succeed.
RtWrites(r) ==
  (IF r.CpuRtPeriod # 0
   THEN <<W("cpu.rt_period_us", FormatUint(r.CpuRtPeriod), TRUE)>> ELSE <<>>)
  \o (IF r.CpuRtRuntime # 0
      THEN <<W("cpu.rt_runtime_us", FormatInt(r.CpuRtRuntime), TRUE)>> ELSE <<>>)

\* The first write to the period file failed, and every other write of the
\* call (a retry of it among them) succeeded.
PeriodFailedOnce ==
  \E i \in WritesTo("cpu.cfs_period_us") :
    /\ \A j \in WritesTo("cpu.cfs_period_us") : i <= j
    /\ ~log[i].ok
    /\ \A k \in 1..Len(log) : k # i => log[k].ok

\* The two writes to the period file both failed.
PeriodFailedTwice ==
  \E i, j \in WritesTo("cpu.cfs_period_us") : i < j /\ ~log[i].ok /\ ~log[j].ok

\* ------------------------------------------------------------------ claims

\* C1: a Set with nonzero period and quota whose first period write fails
\* and whose retry succeeds, every other write succeeding, issues exactly
\* shares (if nonzero), period (fails), quota, period, then the RT fields,
\* in this order; it returns success and has written period exactly twice.
C1_RetryOrder ==
  (IsSet /\ arg.CpuPeriod # 0 /\ arg.CpuQuota # 0 /\ PeriodFailedOnce) =>
    /\ log = (IF arg.CpuShares # 0
              THEN <<W("cpu.shares", FormatUint(arg.CpuShares), TRUE)>> ELSE <<>>)
             \o <<W("cpu.cfs_period_us", FormatUint(arg.CpuPeriod), FALSE),
                  W("cpu.cfs_quota_us", FormatInt(arg.CpuQuota), TRUE),
                  W("cpu.cfs_period_us", FormatUint(arg.CpuPeriod), TRUE)>>
             \o RtWrites(arg)
    /\ ret = Nil
    /\ Writes("cpu.cfs_period_us") = 2

C1_Witness ==
  /\ IsSet /\ arg.CpuPeriod # 0 /\ arg.CpuQuota # 0 /\ PeriodFailedOnce
  /\ arg.CpuShares # 0 /\ arg.CpuRtPeriod # 0 /\ arg.CpuRtRuntime # 0
  /\ Len(log) = 6
  /\ ret = Nil

\* The pair of quota and period satisfies the rule of the tree.
ValidPair(f) == RatioOK(f.period, f.quota)

OneSided == limits.hasParent # limits.hasChild

\* C2: at a node limited on one side only (a leaf under a parent, or a parent
\* over children), with a valid pair in effect, a Set of a valid pair of
\* positive period and quota that the environment does not fail returns
\* success and leaves exactly the requested period and quota in effect.
C2_ValidPairIsWritten ==
  (/\ IsSet /\ OneSided /\ pre.dir /\ faults = {}
   /\ arg.CpuPeriod > 0 /\ arg.CpuQuota > 0
   /\ RatioOK(arg.CpuPeriod, arg.CpuQuota)
   /\ ValidPair(pre.fs)) =>
    /\ ret = Nil
    /\ fs.period = arg.CpuPeriod
    /\ fs.quota = arg.CpuQuota

\* The retry was what made it: the first period write was rejected by the
\* kernel, and the requested pair is in effect.
C2_Witness ==
  /\ IsSet /\ OneSided /\ pre.dir /\ faults = {}
  /\ arg.CpuPeriod > 0 /\ arg.CpuQuota > 0
  /\ RatioOK(arg.CpuPeriod, arg.CpuQuota)
  /\ Writes("cpu.cfs_period_us") = 2
  /\ ret = Nil
  /\ fs.period = arg.CpuPeriod /\ fs.quota = arg.CpuQuota
  /\ fs.period # pre.fs.period /\ fs.quota # pre.fs.quota

\* C3: when every write succeeds, Set issues exactly one write for each of
\* shares, period, quota, rtPeriod and rtRuntime that is nonzero, and no
\* write for a field that is zero.
C3_OneWritePerField ==
  (IsSet /\ AllOk) =>
    /\ Writes("cpu.shares") = (IF arg.CpuShares # 0 THEN 1 ELSE 0)
    /\ Writes("cpu.cfs_period_us") = (IF arg.CpuPeriod # 0 THEN 1 ELSE 0)
    /\ Writes("cpu.cfs_quota_us") = (IF arg.CpuQuota # 0 THEN 1 ELSE 0)
    /\ Writes("cpu.rt_period_us") = (IF arg.CpuRtPeriod # 0 THEN 1 ELSE 0)
    /\ Writes("cpu.rt_runtime_us") = (IF arg.CpuRtRuntime # 0 THEN 1 ELSE 0)
    /\ \A i \in 1..Len(log) : log[i].ev = "write"

C3_Witness ==
  /\ IsSet /\ AllOk /\ ret = Nil
  /\ arg.CpuShares # 0 /\ arg.CpuPeriod # 0 /\ arg.CpuQuota = 0
  /\ arg.CpuRtPeriod = 0 /\ arg.CpuRtRuntime # 0
  /\ Len(log) = 3

\* C4: a Set with nonzero period and quota whose period write fails on the
\* first attempt and on the retry returns the error of the retry, not of the
\* first attempt, and has written quota exactly once, before the retry.
C4_RetryError ==
  (IsSet /\ arg.CpuPeriod # 0 /\ arg.CpuQuota # 0 /\ PeriodFailedTwice) =>
    \E i, j \in WritesTo("cpu.cfs_period_us"), q \in WritesTo("cpu.cfs_quota_us") :
      /\ WritesTo("cpu.cfs_period_us") = {i, j}
      /\ WritesTo("cpu.cfs_quota_us") = {q}
      /\ i < q /\ q < j
      /\ log[q].ok
      /\ j = Len(log)
      /\ ret = ErrAt("WriteError", j)
      /\ ret # ErrAt("WriteError", i)

C4_Witness ==
  /\ IsSet /\ arg.CpuPeriod # 0 /\ arg.CpuQuota # 0 /\ PeriodFailedTwice
  /\ arg.CpuShares # 0
  /\ ret.kind = "WriteError"

\* C5: in every Apply that reaches the attachment of the process, the RT
\* writes of the nonzero rtPeriod and rtRuntime have succeeded before the
\* attachment, and no RT write comes after it.
C5_RtBeforeAttach ==
  (op \in {"Apply", "ApplyDir"}) =>
    \A k \in At("attach", "cgroup.procs") :
      /\ arg.CpuRtPeriod # 0 =>
           \E i \in WritesTo("cpu.rt_period_us") : i < k /\ log[i].ok
      /\ arg.CpuRtRuntime # 0 =>
           \E i \in WritesTo("cpu.rt_runtime_us") : i < k /\ log[i].ok
      /\ \A i \in 1..Len(log) : log[i].ev = "write" => i < k

C5_Witness ==
  /\ op = "Apply"
  /\ arg.CpuRtPeriod # 0 /\ arg.CpuRtRuntime # 0
  /\ At("attach", "cgroup.procs") # {}
  /\ pid \in procs
  /\ ret = Nil

\* The call created the directory, wrote a parameter or attached a process.
Mutated ==
  \E i \in 1..Len(log) : log[i].ev \in {"mkdir", "write", "attach"} /\ log[i].ok

\* C6, as claimed: Removed is terminal; once a Remove has succeeded, no later
\* Apply or Set creates the directory, writes a parameter or attaches a
\* process.
C6_RemovedIsTerminal ==
  (pre.removed /\ op \in {"Apply", "ApplyDir", "Set", "SetRtSched"}) => ~Mutated

\* C6, as amended: the controller keeps no lifecycle state and Removed is not
\* terminal.  After a Remove has succeeded, an Apply whose path resolves and
\* whose steps all succeed creates the directory again, writes the nonzero RT
\* parameters and attaches the process; a Set or SetRtSched on the directory
\* still absent fails every write it issues and changes nothing.
C6_RemovedNotTerminal ==
  /\ (pre.removed /\ op = "Apply" /\ res.err = Nil /\ ret = Nil) =>
       /\ log = <<Event("mkdir", Dir, <<>>, TRUE)>> \o RtWrites(arg)
                \o <<Event("attach", "cgroup.procs", FormatInt(pid), TRUE)>>
       /\ dirExists
       /\ pid \in procs
  /\ (pre.removed /\ ~pre.dir /\ op \in {"Set", "SetRtSched"}) =>
       /\ \A i \in 1..Len(log) : ~log[i].ok
       /\ Untouched
       /\ (log # <<>> => ret.kind = "WriteError")

C6_Witness ==
  /\ pre.removed /\ ~pre.dir
  /\ op = "Apply" /\ res.err = Nil /\ ret = Nil
  /\ arg.CpuRtPeriod # 0
  /\ dirExists
  /\ pid \in procs

\* C7, as claimed: when a line of cpu.stat does not parse, GetStats returns
\* the error and the caller's record holds the values it held before the
\* call.
C7_NoPartialStats ==
  (op = "GetStats" /\ ret.kind = "ParseError") => stats = stats0

\* The files of the parameters whose field of r is zero.
ZeroFiles(r) ==
  {f \in {"cpu.shares", "cpu.cfs_period_us", "cpu.cfs_quota_us",
          "cpu.rt_period_us", "cpu.rt_runtime_us"} :
     \/ f = "cpu.shares" /\ r.CpuShares = 0
     \/ f = "cpu.cfs_period_us" /\ r.CpuPeriod = 0
     \/ f = "cpu.cfs_quota_us" /\ r.CpuQuota = 0
     \/ f = "cpu.rt_period_us" /\ r.CpuRtPeriod = 0
     \/ f = "cpu.rt_runtime_us" /\ r.CpuRtRuntime = 0}

\* The value in effect in a control file.
Value(f, file) ==
  CASE file = "cpu.shares" -> f.shares
    [] file = "cpu.cfs_period_us" -> f.period
    [] file = "cpu.cfs_quota_us" -> f.quota
    [] file = "cpu.rt_period_us" -> f.rtPeriod
    [] file = "cpu.rt_runtime_us" -> f.rtRuntime

\* C8: in every Apply, Set and SetRtSched, failing ones and the ones that
\* retry the period included, no write is issued to a parameter whose field
\* is zero, and the value of that parameter is left as it was.
C8_ZeroNeverWritten ==
  (op \in {"Apply", "ApplyDir", "Set", "SetRtSched"}) =>
    \A f \in ZeroFiles(arg) :
      /\ Writes(f) = 0
      /\ Value(fs, f) = Value(pre.fs, f)

\* A failing Set on the retry path, quota and rtPeriod zero, that changed
\* shares and nothing else.
C8_Witness ==
  /\ IsSet /\ pre.dir
  /\ arg.CpuShares # 0 /\ arg.CpuPeriod # 0 /\ arg.CpuQuota = 0
  /\ arg.CpuRtPeriod = 0 /\ arg.CpuRtRuntime # 0
  /\ Writes("cpu.cfs_period_us") = 2
  /\ ret # Nil
  /\ fs.shares # pre.fs.shares

\* C9: Apply on a target whose resolved path is empty returns success and
\* changes nothing: it creates no directory, writes no parameter and does
\* not attach the process.
C9_EmptyPathNoOp ==
  (/\ op \in {"Apply", "ApplyDir"}
   /\ path = ""
   /\ (res.err = Nil \/ IsNotFound(res.err))) =>
    /\ ret = Nil
    /\ log = <<>>
    /\ Untouched

C9_Witness ==
  /\ op = "ApplyDir" /\ path = ""
  /\ pre.dir
  /\ arg.CpuRtPeriod # 0 /\ arg.CpuRtRuntime # 0
  /\ ret = Nil /\ log = <<>>

\* C10: when the resolution of the path fails because the subsystem is not
\* mounted, Apply returns success and does nothing; when it fails otherwise,
\* Apply returns that error; either way no directory is created, no parameter
\* written and no process attached.
C10_ResolutionFailure ==
  (op = "Apply" /\ res.err # Nil) =>
    /\ ret = (IF IsNotFound(res.err) THEN Nil ELSE res.err)
    /\ log = <<>>
    /\ Untouched

C10_Witness ==
  /\ op = "Apply" /\ IsNotFound(res.err)
  /\ arg.CpuRtPeriod # 0
  /\ ret = Nil /\ log = <<>>

\* C11: GetStats on a directory, existing or not, that has no cpu.stat
\* returns success and leaves the caller's record as it was.
C11_NoStatFile ==
  (op = "GetStats" /\ ~statFile.present) => (ret = Nil /\ stats = stats0)

\* The directory exists, the file does not, and the record handed in was
\* filled before.
C11_Witness ==
  /\ op = "GetStats" /\ ~statFile.present
  /\ pre.dir /\ path = Dir
  /\ stats0 = ThrottlingData(3, 1, 7)
  /\ ret = Nil

\* Every line of the file is a key and an unsigned number.
AllParse(lines) ==
  \A i \in 1..Len(lines) : getCgroupParamKeyValue(lines[i]).err = Nil

\* The value of the last line of lines with key k; dflt when there is none.
LastValue(lines, k, dflt) ==
  LET at == {i \in 1..Len(lines) : lines[i][1] = k}
  IN IF at = {} THEN dflt
     ELSE LET i == CHOOSE x \in at : \A y \in at : y <= x
          IN ParseDigits(lines[i][2], 0)

\* C12: when every line of cpu.stat parses, GetStats returns success with
\* periods, throttledPeriods and throttledTime set to the values of
\* nr_periods, nr_throttled and throttled_time; a field whose key the file
\* does not hold, and every line of another key, changes nothing.
C12_StatsOfKeys ==
  (/\ op = "GetStats" /\ statFile.present /\ ret.kind # "OpenError"
   /\ AllParse(statFile.lines)) =>
    /\ ret = Nil
    /\ stats = ThrottlingData(
                 LastValue(statFile.lines, "nr_periods", stats0.Periods),
                 LastValue(statFile.lines, "nr_throttled", stats0.ThrottledPeriods),
                 LastValue(statFile.lines, "throttled_time", stats0.ThrottledTime))

\* The file of the example: nr_periods 10, nr_throttled 2,
\* throttled_time 500000.
C12_Witness ==
  /\ op = "GetStats"
  /\ statFile = [present |-> TRUE,
                 lines |-> <<<<"nr_periods", FormatUint(10)>>,
                             <<"nr_throttled", FormatUint(2)>>,
                             <<"throttled_time", FormatUint(500000)>>>>]
  /\ ret = Nil
  /\ stats = ThrottlingData(10, 2, 500000)

\* C13: Remove is idempotent: on a directory that is absent already, a second
\* Remove after a successful one included, a Remove whose path resolves
\* returns success and changes nothing.
C13_RemoveIdempotent ==
  (op = "Remove" /\ ~pre.dir /\ res.err = Nil /\ faults = {}) =>
    (ret = Nil /\ Untouched)

\* A second Remove after a successful one.
C13_Witness ==
  /\ op = "Remove" /\ pre.removed /\ ~pre.dir
  /\ res.err = Nil /\ faults = {}
  /\ log = <<Event("rmdir", Dir, <<>>, TRUE)>>
  /\ ret = Nil

\* C14: Set is idempotent: a second Set of the same configuration, right
\* after a Set that returned success and with nothing else touching the
\* directory or failing the writes, returns success too and leaves every
\* control file with the value it had after the first.
C14_SetIdempotent ==
  (IsSet /\ again /\ faults = {}) => (ret = Nil /\ fs = pre.fs)

\* A second Set of shares, period, quota and the RT fields, which wrote each
\* of them once more.
C14_Witness ==
  /\ IsSet /\ again /\ faults = {}
  /\ arg.CpuShares # 0 /\ arg.CpuPeriod # 0 /\ arg.CpuQuota > 0
  /\ arg.CpuRtPeriod # 0
  /\ limits.hasParent
  /\ Len(log) = 5
  /\ ret = Nil
  /\ fs.period = arg.CpuPeriod /\ fs.quota = arg.CpuQuota

\* The first write of the call to the period file, if there is one.
FirstPeriodWrite ==
  {i \in WritesTo("cpu.cfs_period_us") :
     \A j \in WritesTo("cpu.cfs_period_us") : i <= j}

\* C15: when the first period write fails and the quota is zero, Set writes
\* no quota and retries the same period write; the state of the kernel being
\* what it was, and the environment failing nothing, the retry fails too: Set
\* returns the failure of the period and writes no RT field.
C15_RetryWithoutQuota ==
  (/\ IsSet /\ faults = {}
   /\ arg.CpuPeriod # 0 /\ arg.CpuQuota = 0
   /\ \E i \in FirstPeriodWrite : ~log[i].ok) =>
    \E i \in FirstPeriodWrite :
      /\ WritesTo("cpu.cfs_period_us") = {i, i + 1}
      /\ log[i + 1] = log[i]
      /\ Len(log) = i + 1
      /\ ret = ErrAt("WriteError", i + 1)
      /\ Writes("cpu.cfs_quota_us") = 0
      /\ Writes("cpu.rt_period_us") = 0
      /\ Writes("cpu.rt_runtime_us") = 0
      /\ fs.period = pre.fs.period

\* The kernel rejects the period for the quota in effect, with RT fields to
\* write after it.
C15_Witness ==
  /\ IsSet /\ faults = {} /\ pre.dir
  /\ arg.CpuPeriod # 0 /\ arg.CpuQuota = 0 /\ arg.CpuRtPeriod # 0
  /\ Writes("cpu.cfs_period_us") = 2
  /\ ret.kind = "WriteError"

\* C16: in Set and SetRtSched a failed write of shares, of quota, of the
\* period retry or of an RT field ends the call at once with the error of
\* that write: it is the last write of the call.  Only the first write of the
\* period may fail and be followed by others.
C16_FailedWriteEnds ==
  (op \in {"Set", "SetRtSched"}) =>
    \A i \in 1..Len(log) :
      (~log[i].ok /\ ~(IsSet /\ i \in FirstPeriodWrite)) =>
        (i = Len(log) /\ ret = ErrAt("WriteError", i))

\* The quota fails after the first period write failed: the period is not
\* retried.
C16_Witness ==
  /\ IsSet /\ arg.CpuShares # 0 /\ arg.CpuRtPeriod # 0
  /\ Len(log) = 3
  /\ log[1].ok
  /\ log[2].file = "cpu.cfs_period_us" /\ ~log[2].ok
  /\ log[3].file = "cpu.cfs_quota_us" /\ ~log[3].ok
  /\ ret = ErrAt("WriteError", 3)

\* The error a failed operation of the log gives.
ErrorOf(i) ==
  ErrAt(CASE log[i].ev = "mkdir" -> "MkdirError"
          [] log[i].ev = "write" -> "WriteError"
          [] log[i].ev = "attach" -> "AttachError"
          [] OTHER -> "RemoveError", i)

\* C17: in Apply the failure of a step ends the call with the error of that
\* step: after a failed creation of the directory no RT parameter is written
\* and the process is not attached, and after a failed RT write the process
\* is not attached.
C17_ApplyStepFails ==
  (op \in {"Apply", "ApplyDir"}) =>
    \A i \in 1..Len(log) :
      ~log[i].ok =>
        /\ i = Len(log)
        /\ ret = ErrorOf(i)
        /\ procs = pre.procs

\* The write of rtRuntime fails after the directory was made and rtPeriod
\* written: no attachment.
C17_Witness ==
  /\ op = "Apply" /\ ~pre.dir
  /\ Len(log) = 3
  /\ log[1].ev = "mkdir" /\ log[1].ok
  /\ log[2].ok
  /\ log[3].file = "cpu.rt_runtime_us" /\ ~log[3].ok
  /\ ret = ErrAt("WriteError", 3)
  /\ procs = {}

\* C18: at a node in the middle of a tree whose parent, itself and children
\* all have quota 1000 over period 1000, a Set of period 10000 and quota 10000
\* returns an error whatever else it is given and whatever the environment
\* does: the kernel takes neither the period under the quota in effect (the
\* children's ratio would be higher) nor the quota under the period in effect
\* (the ratio would be higher than the parent's), and the pair in effect stays.
C18_MiddleRescaleFails ==
  (/\ IsSet
   /\ limits.hasParent /\ limits.hasChild
   /\ pre.fs.period = 1000 /\ pre.fs.quota = 1000
   /\ arg.CpuPeriod = 10000 /\ arg.CpuQuota = 10000) =>
    /\ ret # Nil
    /\ ret.kind = "WriteError"
    /\ fs.period = 1000 /\ fs.quota = 1000
    /\ (faults = {} =>
          /\ Writes("cpu.cfs_period_us") = 1
          /\ Writes("cpu.cfs_quota_us") = 1
          /\ \A i \in WritesTo("cpu.cfs_period_us") :
               ~log[i].ok /\ log[i + 1].file = "cpu.cfs_quota_us"
          /\ \A i \in WritesTo("cpu.cfs_quota_us") :
               ~log[i].ok /\ i = Len(log) /\ ret.at = i)

\* The kernel rejects the period, then the quota; no fault of the environment
\* is involved.
C18_Witness ==
  /\ IsSet /\ faults = {}
  /\ limits.hasParent /\ limits.hasChild
  /\ pre.fs.period = 1000 /\ pre.fs.quota = 1000
  /\ arg.CpuPeriod = 10000 /\ arg.CpuQuota = 10000
  /\ arg.CpuShares # 0
  /\ Len(log) = 3
  /\ ret = ErrAt("WriteError", 3)
  /\ fs.shares = arg.CpuShares

ControlFiles ==
  {"cpu.shares", "cpu.cfs_period_us", "cpu.cfs_quota_us",
   "cpu.rt_period_us", "cpu.rt_runtime_us"}

\* The successful writes of the call to file.
Landed(file) == {i \in WritesTo(file) : log[i].ok}

\* C19: Set rolls nothing back.  When it returns an error, every parameter
\* it wrote successfully holds the value written last, and every other
\* parameter, whether its write failed or was never reached, holds the value
\* it had before the call.
C19_NoRollback ==
  (IsSet /\ ret # Nil) =>
    \A file \in ControlFiles :
      IF Landed(file) # {}
      THEN \E i \in Landed(file) :
             /\ \A j \in Landed(file) : j <= i
             /\ Value(fs, file) = ParseNumber(log[i].data)
      ELSE Value(fs, file) = Value(pre.fs, file)

\* Shares and quota are written, the period fails twice: shares and quota
\* stay changed, the period and the RT parameters stay as they were.
C19_Witness ==
  /\ IsSet /\ ret = ErrAt("WriteError", 4)
  /\ arg.CpuRtPeriod # 0
  /\ log[1].file = "cpu.shares" /\ log[1].ok
  /\ ~log[2].ok /\ log[3].ok /\ ~log[4].ok
  /\ fs.shares = arg.CpuShares /\ fs.shares # pre.fs.shares
  /\ fs.quota = arg.CpuQuota /\ fs.quota # pre.fs.quota
  /\ fs.period = pre.fs.period /\ fs.period # arg.CpuPeriod
  /\ fs.rtPeriod = pre.fs.rtPeriod

====
